---- MODULE Spec2Model ----
(***************************************************************************)
(* Model of timesheet.py: the Timesheet editor (row lookup by date, field  *)
(* setters, dirty flag, compact rendering, save) and the command-line      *)
(* driver at the bottom of the file.                                       *)
(*                                                                         *)
(* Python values are tuples, told apart by their length as isinstance      *)
(* tells them apart: None = << >>, a str s = <<s>>, a time = <<h, m>>,     *)
(* a date = <<y, m, d>>, a datetime = <<y, m, d, h, mi>>.  A row index     *)
(* (an int or None) is << >> or <<i>>.                                     *)
(***************************************************************************)
EXTENDS Integers, Sequences, FiniteSets, TLC

\* The number of rows of a sheet.
MaxRows == 2
\* The number of calls made on one editor where every argument combination is tried.
MaxCalls == 1

None == << >>

IsDatetime(v) == Len(v) = 5
IsDate(v) == Len(v) = 3
IsTime(v) == Len(v) = 2

\* datetime.date(): the date component of a datetime.
DateOf(v) == SubSeq(v, 1, 3)

\* The days and times that calls and cells are drawn from.
Day1 == <<2024, 3, 1>>
Day2 == <<2024, 3, 2>>
Days == {Day1, Day2}
\* The time a call passes for each field, and the time a cell may hold before.
TimeFields == {"start", "end", "break_start", "break_end"}
TimeFor(f) ==
    CASE f = "start" -> <<9, 0>>
      [] f = "break_start" -> <<12, 0>>
      [] f = "break_end" -> <<12, 30>>
      [] f = "end" -> <<17, 30>>
OldTime == <<8, 15>>
\* The argument of a call that passes exactly the fields of F.
Arg(f, F) == IF f \in F THEN TimeFor(f) ELSE None

\* What a cell of the date column may hold: nothing, a text, a datetime.
DateCells == {None, <<"Date">>, Day1 \o <<0, 0>>, Day2 \o <<8, 30>>}

\* Timesheet.__init__: the fixed column of every logical field.
col_date == "A"
col_start == "B"
col_break_start == "C"
col_break_end == "D"
col_end == "E"
TimeCols == {col_start, col_break_start, col_break_end, col_end}

VARIABLES
    sheet,      \* self._sheet: the rows of the active sheet, row r at sheet[r]
    dirty,      \* self._dirty
    file,       \* the rows of the stored document at self._file_path
    unsaved,    \* history: a cell was assigned since open / the last completed save
    call,       \* history: the last operation and its arguments
    ret,        \* history: what the last operation returned, or that it raised
    writes,     \* history: the cell assignments of the last operation, in order
    err,        \* history: what the last operation printed to stderr
    out,        \* history: what the last operation printed to stdout
    pc,         \* the driver's position
    argv,       \* the driver's parsed command line, before conversion
    args,       \* the driver's args namespace after the conversion loop
    row,        \* the driver's variable row
    updated,    \* the driver's variable updated
    exit_code,  \* the status the process ended with (None while it runs)
    calls,      \* history: the number of counted calls made on the editor
    trace       \* history: the editor operations the driver has completed or begun

vars == <<sheet, dirty, file, unsaved, call, ret, writes, err, out,
          pc, argv, args, row, updated, exit_code, calls, trace>>

driverVars == <<pc, argv, args, row, updated, exit_code, trace>>

(***************************************************************************)
(* The editor.                                                             *)
(***************************************************************************)

\* The cells of the date column, top to bottom: self._sheet[self._col_date].
DateColumn(sh) == [r \in 1..Len(sh) |-> sh[r][col_date]]

\* next(...) over enumerate(column): the enumerate index (from 0) of the first
\* cell at or after position i whose value is a datetime of that day, or None.
RECURSIVE FirstFrom_Last(_, _, _)
FirstFrom_Last(cells, day, i) ==
    IF i >= Len(cells) THEN None
    ELSE LET later == FirstFrom_Last(cells, day, i + 1)
         IN IF later # None THEN later
            ELSE IF IsDatetime(cells[i + 1]) /\ DateOf(cells[i + 1]) = day THEN <<i>>
            ELSE None

RECURSIVE FirstFrom(_, _, _)
FirstFrom(cells, day, i) ==
    IF i >= Len(cells) THEN None
    ELSE IF IsDatetime(cells[i + 1]) /\ DateOf(cells[i + 1]) = day THEN <<i>>
    ELSE FirstFrom(cells, day, i + 1)

\* Timesheet._get_row_index: the index and the diagnostic printed on a miss.
get_row_index(sh, day) ==
    LET row_index == FirstFrom(DateColumn(sh), day, 0)
    IN [row_index |-> row_index,
        err |-> IF row_index = None THEN <<"Could not find row for day", day>>
                ELSE None]

\* Timesheet._get_column: self._sheet[column + str(row_index)].  The sheet
\* addresses rows from 1; it has no row 0 and the access raises ValueError
\* ("Row numbers must be between 1 and 1048576").
CellExists(row_index) == row_index >= 1

\* The value of the cell; a cell below the last row is created empty.
CellValue(sh, column, row_index) ==
    IF row_index <= Len(sh) THEN sh[row_index][column] ELSE None

set_column_KeepsFlag(e, column, row_index, value) ==
    IF e.raised THEN e
    ELSE IF row_index < 1 THEN [e EXCEPT !.raised = TRUE]
    ELSE [e EXCEPT !.sheet[row_index][column] = value,
                   !.writes = Append(@, <<column, row_index, value>>)]

\* Timesheet._set_column on the editor state e = [sheet, dirty, raised, writes].
set_column(e, column, row_index, value) ==
    IF e.raised THEN e
    ELSE IF ~CellExists(row_index) THEN [e EXCEPT !.raised = TRUE]
    ELSE [e EXCEPT !.sheet[row_index][column] = value,
                   !.dirty = TRUE,
                   !.writes = Append(@, <<column, row_index, value>>)]

\* One "if x is not None: self._set_x(row_index, x)" of enter.
SetIfGiven(e, column, row_index, value) ==
    IF value = None THEN e ELSE set_column(e, column, row_index, value)

MissResult_Flag(d) == <<None, d>>

\* What enter returns on a miss: "return None, False".
MissResult(d) == <<None, FALSE>>

EnterReturn_True(row_index, d) == <<row_index, TRUE>>

\* What enter returns on a hit: "return row_index, self.is_dirty".
EnterReturn(row_index, d) == <<row_index, d>>

\* Timesheet.enter on sheet sh with dirty flag d.
enter(sh, d, day, start, end, break_start, break_end) ==
    LET found == get_row_index(sh, day)
        e0 == [sheet |-> sh, dirty |-> d, raised |-> FALSE, writes |-> << >>]
    IN IF found.row_index = None
       THEN [sheet |-> sh, dirty |-> d, raised |-> FALSE, writes |-> << >>,
             err |-> found.err, ret |-> MissResult(d)]
       ELSE LET i == found.row_index[1]
                e1 == SetIfGiven(e0, col_start, i, start)
                e2 == SetIfGiven(e1, col_end, i, end)
                e3 == SetIfGiven(e2, col_break_start, i, break_start)
                e4 == SetIfGiven(e3, col_break_end, i, break_end)
            IN [sheet |-> e4.sheet, dirty |-> e4.dirty, raised |-> e4.raised,
                writes |-> e4.writes, err |-> None,
                ret |-> IF e4.raised THEN None
                        ELSE EnterReturn(found.row_index, e4.dirty)]

\* str(time): HH:MM:SS.
TimeStr(v) == IF IsTime(v) THEN <<v[1], v[2], 0>> ELSE v

\* Timesheet._get_day: the date of a datetime cell, None for anything else.
get_day(sh, row_index) ==
    LET day == CellValue(sh, col_date, row_index)
    IN IF IsDatetime(day) THEN DateOf(day) ELSE None

\* The OrderedDict of print_row, as its items in insertion order.
row_dict(sh, row_index) ==
    << <<"date", get_day(sh, row_index)>>,
       <<"start", CellValue(sh, col_start, row_index)>>,
       <<"break_start", CellValue(sh, col_break_start, row_index)>>,
       <<"break_end", CellValue(sh, col_break_end, row_index)>>,
       <<"end", CellValue(sh, col_end, row_index)>> >>

Listed_AnyKey(item) == item[2] # None

\* The items the compact rendering keeps.
Listed(item) == item[1] # "date" /\ item[2] # None

RECURSIVE Pairs(_)
Pairs(items) ==
    IF items = << >> THEN << >>
    ELSE (IF Listed(Head(items))
          THEN << <<Head(items)[1], "@", TimeStr(Head(items)[2])>> >>
          ELSE << >>) \o Pairs(Tail(items))

\* Timesheet.print_row: the printed line (compact) or table (pretty).
print_row(sh, row_index, pretty) ==
    LET d == row_dict(sh, row_index)
    IN IF pretty THEN <<"table", d>>
       ELSE <<d[1][2], "->", Pairs(d)>>

(***************************************************************************)
(* The editor's operations, called in any order on one open editor.        *)
(***************************************************************************)

\* A row whose time cells in the columns of P hold an earlier entry.
RowWith(a, P) == [c \in {col_date} \cup TimeCols |->
                    IF c = col_date THEN a ELSE IF c \in P THEN OldTime ELSE None]

\* The stored documents: any date column, earlier entries in the columns of P.
SheetsWith(Patterns) ==
    {[r \in 1..MaxRows |-> RowWith(col[r], P)] :
        col \in [1..MaxRows -> DateCells], P \in Patterns}

NoCall == [op |-> "open"]
NoRet == [raised |-> FALSE, value |-> None]

DriverIdle ==
    /\ pc = "api"
    /\ argv = None
    /\ args = None
    /\ row = None
    /\ updated = FALSE
    /\ exit_code = None
    /\ trace = << >>

\* Timesheet.__init__ on one of the stored documents.
Opened(Stored) ==
    /\ file \in Stored
    /\ sheet = file
    /\ dirty = FALSE
    /\ unsaved = FALSE
    /\ call = NoCall
    /\ ret = NoRet
    /\ writes = << >>
    /\ err = None
    /\ out = None
    /\ calls = 0

Init == Opened(SheetsWith({{}, {col_start}, {col_break_start, col_break_end, col_end}, TimeCols})) /\ DriverIdle

\* A call of enter passing exactly the fields of some F of FieldSets.
EnterOp(FieldSets) ==
    \E day \in Days, F \in FieldSets :
        LET start == Arg("start", F)
            end == Arg("end", F)
            break_start == Arg("break_start", F)
            break_end == Arg("break_end", F)
            r == enter(sheet, dirty, day, start, end, break_start, break_end)
        IN /\ sheet' = r.sheet
           /\ dirty' = r.dirty
           /\ unsaved' = (unsaved \/ r.writes # << >>)
           /\ call' = [op |-> "enter", day |-> day, start |-> start, end |-> end,
                       break_start |-> break_start, break_end |-> break_end]
           /\ ret' = [raised |-> r.raised, value |-> r.ret]
           /\ writes' = r.writes
           /\ err' = r.err
           /\ out' = None
           /\ UNCHANGED <<file, driverVars>>

\* A call of print_row.
PrintRowOp ==
    \E row_index \in 0..Len(sheet), pretty \in BOOLEAN :
        /\ call' = [op |-> "print_row", row_index |-> row_index, pretty |-> pretty]
        /\ ret' = [raised |-> ~CellExists(row_index), value |-> None]
        /\ out' = IF CellExists(row_index) THEN print_row(sheet, row_index, pretty)
                  ELSE None
        /\ writes' = << >>
        /\ err' = None
        /\ UNCHANGED <<sheet, dirty, file, unsaved, driverVars>>

\* Timesheet.save on editor state [sheet, dirty, file], called without a
\* file_path as the driver calls it, when the workbook is written (ok) and
\* when self._workbook.save raises.
save(sh, d, f, ok) ==
    IF ok THEN [file |-> sh, dirty |-> FALSE, raised |-> FALSE,
                err |-> <<"Timesheet updated">>]
    ELSE [file |-> f, dirty |-> d, raised |-> TRUE, err |-> None]

SaveOp(ok) ==
    LET r == save(sheet, dirty, file, ok)
    IN /\ file' = r.file
       /\ dirty' = r.dirty
       /\ unsaved' = (unsaved /\ ~ok)
       /\ call' = [op |-> "save"]
       /\ ret' = [raised |-> r.raised, value |-> None]
       /\ writes' = << >>
       /\ err' = r.err
       /\ out' = None
       /\ UNCHANGED <<sheet, driverVars>>

\* Up to MaxCalls calls, every combination of arguments.
Counted == calls < MaxCalls /\ calls' = calls + 1

Enter == Counted /\ EnterOp(SUBSET TimeFields)
PrintRow == Counted /\ PrintRowOp
Save == Counted /\ SaveOp(TRUE)
SaveRaises == Counted /\ SaveOp(FALSE)

Next == Enter \/ PrintRow \/ Save \/ SaveRaises

Spec == Init /\ [][Next]_vars

\* Any number of calls, a few field combinations.
SeqFieldSets == {{}, {"start"}, {"break_start", "break_end"}, TimeFields}

InitSeq == Opened(SheetsWith({{}, TimeCols})) /\ DriverIdle

SeqEnter == calls' = calls /\ EnterOp(SeqFieldSets)
SeqPrintRow == calls' = calls /\ PrintRowOp
SeqSave == calls' = calls /\ SaveOp(TRUE)
SeqSaveRaises == calls' = calls /\ SaveOp(FALSE)

NextSeq == SeqEnter \/ SeqPrintRow \/ SeqSave \/ SeqSaveRaises

SpecSeq == InitSeq /\ [][NextSeq]_vars

\* Rendering alone, of rows with every combination of filled time cells.
InitRender == Opened(SheetsWith(SUBSET TimeCols)) /\ DriverIdle

RenderCompact == calls' = calls /\ PrintRowOp /\ ~call'.pretty
RenderPretty == calls' = calls /\ PrintRowOp /\ call'.pretty

NextRender == RenderCompact \/ RenderPretty

SpecRender == InitRender /\ [][NextRender]_vars

(***************************************************************************)
(* The command-line driver (the __main__ block).                           *)
(***************************************************************************)

\* bool(value) of an argument: None and the empty str are false; a non-empty
\* str, a date and a time are true.
Truthy(value) == value # None /\ value # <<"">>

\* bool(row) of a row index: None and 0 are false.
TruthyRow(r) == r # None /\ r # <<0>>

\* datetime.strptime(x, "%Y-%m-%d").date() on the texts a run may pass.
DateTexts == {"2024-03-02", "2030-01-01"}
strptime_date(s) ==
    CASE s = "2024-03-02" -> Day2
      [] s = "2030-01-01" -> <<2030, 1, 1>>

\* datetime.strptime(x, "%H:%M").time() on the texts a run may pass.
TimeTexts == {"09:00", "12:00", "12:30", "17:30"}
strptime_time(s) ==
    CASE s = "09:00" -> <<9, 0>>
      [] s = "12:00" -> <<12, 0>>
      [] s = "12:30" -> <<12, 30>>
      [] s = "17:30" -> <<17, 30>>

parse_date(x) ==
    IF IsDate(x) THEN [exited |-> FALSE, value |-> x, err |-> None]
    ELSE IF x[1] \in DateTexts
    THEN [exited |-> FALSE, value |-> strptime_date(x[1]), err |-> None]
    ELSE [exited |-> TRUE, value |-> None, err |-> <<"Invalid day", x>>]

parse_time(x) ==
    IF IsTime(x) THEN [exited |-> FALSE, value |-> x, err |-> None]
    ELSE IF x[1] \in TimeTexts
    THEN [exited |-> FALSE, value |-> strptime_time(x[1]), err |-> None]
    ELSE [exited |-> TRUE, value |-> None, err |-> <<"Invalid time", x>>]

\* The attributes in the order the conversion loop visits them.
Attrs == <<"date", "start", "break_start", "break_end", "end">>

\* The conversion loop from attribute i on, on namespace ns.
RECURSIVE ConvertFrom(_, _)
ConvertFrom(ns, i) ==
    IF i > Len(Attrs) THEN [exited |-> FALSE, args |-> ns, err |-> None]
    ELSE LET attr == Attrs[i]
             value == ns[attr]
         IN IF ~Truthy(value) THEN ConvertFrom(ns, i + 1)
            ELSE LET p == IF attr = "date" THEN parse_date(value)
                          ELSE parse_time(value)
                 IN IF p.exited THEN [exited |-> TRUE, args |-> ns, err |-> p.err]
                    ELSE ConvertFrom([ns EXCEPT ![attr] = p.value], i + 1)

\* What the command line may give for the date: nothing (today, a date), a
\* valid text, a malformed text, the empty text.
today == Day1
DateArgs == {today, <<"2024-03-02">>, <<"2030-01-01">>, <<"03/01/2024">>, <<"">>}

\* What it may give for field f: nothing, its valid text, a malformed text,
\* the empty text.
ValidText(f) ==
    CASE f = "start" -> <<"09:00">>
      [] f = "break_start" -> <<"12:00">>
      [] f = "break_end" -> <<"12:30">>
      [] f = "end" -> <<"17:30">>
TimeArgs(f) == {None, ValidText(f), <<"9am">>, <<"">>}

InitCLI ==
    /\ file \in SheetsWith({{}})
    /\ sheet = << >>
    /\ dirty = FALSE
    /\ unsaved = FALSE
    /\ call = NoCall
    /\ ret = NoRet
    /\ writes = << >>
    /\ err = None
    /\ out = None
    /\ calls = 0
    /\ pc = "convert"
    /\ \E d \in DateArgs, s \in TimeArgs("start"), bs \in TimeArgs("break_start"),
          be \in TimeArgs("break_end"), e \in TimeArgs("end"), p \in BOOLEAN :
          argv = [date |-> d, start |-> s, break_start |-> bs, break_end |-> be,
                  end |-> e, pretty |-> p]
    /\ args = argv
    /\ row = None
    /\ updated = FALSE
    /\ exit_code = None
    /\ trace = << >>

editorVars == <<sheet, dirty, file, unsaved, call, ret, writes, out>>

\* The conversion loop runs through.
ConvertArgs ==
    /\ pc = "convert"
    /\ ~ConvertFrom(args, 1).exited
    /\ args' = ConvertFrom(args, 1).args
    /\ pc' = "open"
    /\ UNCHANGED <<editorVars, err, argv, row, updated, exit_code, calls, trace>>

\* parse_date or parse_time prints the value and calls sys.exit(-1).
ConvertExits ==
    /\ pc = "convert"
    /\ ConvertFrom(args, 1).exited
    /\ err' = ConvertFrom(args, 1).err
    /\ exit_code' = <<-1>>
    /\ pc' = "done"
    /\ UNCHANGED <<editorVars, argv, args, row, updated, calls, trace>>

\* timesheet = Timesheet(args.file)
DriverOpen ==
    /\ pc = "open"
    /\ sheet' = file
    /\ dirty' = FALSE
    /\ trace' = Append(trace, "open")
    /\ pc' = "enter"
    /\ UNCHANGED <<file, unsaved, call, ret, writes, err, out,
                   argv, args, row, updated, exit_code, calls>>

\* load_workbook raises; the exception ends the process.
DriverOpenRaises ==
    /\ pc = "open"
    /\ ret' = [raised |-> TRUE, value |-> None]
    /\ exit_code' = <<1>>
    /\ pc' = "done"
    /\ UNCHANGED <<sheet, dirty, file, unsaved, call, writes, err, out,
                   argv, args, row, updated, calls, trace>>

\* row, updated = timesheet.enter(args.date, args.start, args.end,
\*                                args.break_start, args.break_end)
DriverEnter ==
    /\ pc = "enter"
    /\ LET r == enter(sheet, dirty, args.date, args.start, args.end,
                      args.break_start, args.break_end)
       IN /\ sheet' = r.sheet
          /\ dirty' = r.dirty
          /\ unsaved' = (unsaved \/ r.writes # << >>)
          /\ call' = [op |-> "enter", day |-> args.date, start |-> args.start,
                      end |-> args.end, break_start |-> args.break_start,
                      break_end |-> args.break_end]
          /\ ret' = [raised |-> r.raised, value |-> r.ret]
          /\ writes' = r.writes
          /\ err' = r.err
          /\ trace' = Append(trace, "enter")
          /\ IF r.raised
             THEN /\ exit_code' = <<1>>
                  /\ pc' = "done"
                  /\ UNCHANGED <<row, updated>>
             ELSE /\ row' = r.ret[1]
                  /\ updated' = r.ret[2]
                  /\ pc' = "print"
                  /\ UNCHANGED exit_code
    /\ UNCHANGED <<file, out, argv, args, calls>>

\* if row: timesheet.print_row(row, args.pretty)
DriverPrint ==
    /\ pc = "print"
    /\ TruthyRow(row)
    /\ out' = print_row(sheet, row[1], args.pretty)
    /\ call' = [op |-> "print_row", row_index |-> row[1], pretty |-> args.pretty]
    /\ ret' = NoRet
    /\ writes' = << >>
    /\ err' = None
    /\ trace' = Append(trace, "print_row")
    /\ pc' = "save"
    /\ UNCHANGED <<sheet, dirty, file, unsaved, argv, args, row, updated,
                   exit_code, calls>>

DriverSkipPrint ==
    /\ pc = "print"
    /\ ~TruthyRow(row)
    /\ pc' = "save"
    /\ UNCHANGED <<editorVars, err, argv, args, row, updated, exit_code, calls, trace>>

Persisted_Always(u) == TRUE

\* if updated: timesheet.save()
Persisted(u) == u

DriverSave ==
    /\ pc = "save"
    /\ Persisted(updated)
    /\ \E ok \in BOOLEAN :
        LET r == save(sheet, dirty, file, ok)
        IN /\ file' = r.file
           /\ dirty' = r.dirty
           /\ unsaved' = (unsaved /\ ~ok)
           /\ ret' = [raised |-> r.raised, value |-> None]
           /\ err' = r.err
           /\ exit_code' = IF ok THEN <<0>> ELSE <<1>>
    /\ call' = [op |-> "save"]
    /\ writes' = << >>
    /\ trace' = Append(trace, "save")
    /\ pc' = "done"
    /\ UNCHANGED <<sheet, out, argv, args, row, updated, calls>>

DriverSkipSave ==
    /\ pc = "save"
    /\ ~Persisted(updated)
    /\ exit_code' = <<0>>
    /\ pc' = "done"
    /\ UNCHANGED <<editorVars, err, argv, args, row, updated, calls, trace>>

NextCLI ==
    \/ ConvertArgs \/ ConvertExits
    \/ DriverOpen \/ DriverOpenRaises
    \/ DriverEnter
    \/ DriverPrint \/ DriverSkipPrint
    \/ DriverSave \/ DriverSkipSave

SpecCLI == InitCLI /\ [][NextCLI]_vars

(***************************************************************************)
(* Properties.                                                             *)
(***************************************************************************)

Min(S) == CHOOSE x \in S : \A y \in S : x <= y
Range(s) == {s[i] : i \in DOMAIN s}

\* The rows of the sheet (counted from 1, as cells are addressed) whose date
\* cell holds a datetime of that day.
Matches(sh, day) ==
    {r \in 1..Len(sh) : IsDatetime(sh[r]["A"]) /\ SubSeq(sh[r]["A"], 1, 3) = day}

\* The column the documentation gives each field.
FieldCol(f) ==
    CASE f = "start" -> "B"
      [] f = "break_start" -> "C"
      [] f = "break_end" -> "D"
      [] f = "end" -> "E"

\* The fields an enter call passed.
Given(c) == {f \in TimeFields : c[f] # None}

\* The sheet after writing the given fields of call c into row m of sh.
Written(sh, c, m) ==
    [r \in 1..Len(sh) |->
        [col \in DOMAIN sh[r] |->
            IF r = m /\ \E f \in Given(c) : FieldCol(f) = col
            THEN c[CHOOSE f \in Given(c) : FieldCol(f) = col]
            ELSE sh[r][col]]]

\* C1: an enter call for a day present in the date column raises nothing,
\* writes exactly the passed fields into the row carrying that day and
\* nothing else, and sets dirty iff a field was passed.
C1_EnterWritesRowOfDay ==
    [][(call'.op = "enter" /\ Matches(sheet, call'.day) # {}) =>
          /\ ~ret'.raised
          /\ sheet' = Written(sheet, call', Min(Matches(sheet, call'.day)))
          /\ dirty' = (dirty \/ Given(call') # {})]_vars

\* C2: for every day carried by some datetime cell of the date column, the
\* lookup returns the scan position of the topmost such cell, never a later
\* one and never a cell that holds no datetime, and prints no diagnostic;
\* enter hands that index back.
C2_LookupFirstMatch ==
    /\ \A day \in Days :
          Matches(sheet, day) # {} =>
             /\ get_row_index(sheet, day).row_index = <<Min(Matches(sheet, day)) - 1>>
             /\ get_row_index(sheet, day).err = None
    /\ (call.op = "enter" /\ ~ret.raised /\ Matches(sheet, call.day) # {}) =>
          /\ ret.value[1] = <<Min(Matches(sheet, call.day)) - 1>>
          /\ err = None

\* A hit on a sheet where two rows carry the day and the later one is passed over.
C2_Witness ==
    /\ call.op = "enter"
    /\ ~ret.raised
    /\ Cardinality(Matches(sheet, call.day)) >= 2
    /\ ret.value[1] = <<0>>

\* C3: an enter call for a day absent from the date column returns
\* (None, False), prints the missing-row diagnostic, raises nothing, writes
\* no cell and leaves dirty as it was.
C3_MissChangesNothing ==
    [][(call'.op = "enter" /\ Matches(sheet, call'.day) = {}) =>
          /\ ~ret'.raised
          /\ ret'.value = <<None, FALSE>>
          /\ err' = <<"Could not find row for day", call'.day>>
          /\ writes' = << >>
          /\ sheet' = sheet
          /\ dirty' = dirty]_vars

\* A miss, with fields passed, on an editor that holds unsaved writes.
C3_Witness ==
    /\ call.op = "enter"
    /\ Matches(sheet, call.day) = {}
    /\ Given(call) # {}
    /\ ret.value = <<None, FALSE>>
    /\ dirty
    /\ sheet # file

\* C4: dirty is true exactly when a cell was assigned since the editor was
\* opened or since the last save that completed.
C4_DirtyIffUnsavedWrite == dirty = unsaved

\* A completed save of a sheet that holds a written start time.
C4_Witness ==
    /\ call.op = "save"
    /\ ~ret.raised
    /\ ~dirty
    /\ \E r \in 1..Len(file) : file[r]["B"] = <<9, 0>>

\* C10 as stated: whatever enter returns as its second component is the
\* dirty flag at that moment, found or not.
C10_ReturnsDirty ==
    (call.op = "enter" /\ ~ret.raised) => ret.value[2] = dirty

\* C10 amended: on a hit the second component is the dirty flag at that
\* moment; on a miss it is False whatever the dirty flag is.
C10_ReturnsDirtyOnHit ==
    (call.op = "enter" /\ ~ret.raised) =>
        IF ret.value[1] # None THEN ret.value[2] = dirty ELSE ret.value[2] = FALSE

\* A miss that returns False while the editor holds unsaved writes.
C10_Witness ==
    /\ call.op = "enter"
    /\ ~ret.raised
    /\ ret.value[1] = None
    /\ ret.value[2] = FALSE
    /\ dirty
    /\ unsaved

\* C9: a second enter call with the arguments of the one before leaves every
\* cell as the first left it, and every call that passes a field for a day
\* present in the date column returns dirty = True.
C9_EnterIdempotent ==
    [][/\ (call.op = "enter" /\ call' = call) => sheet' = sheet
       /\ (call'.op = "enter" /\ Matches(sheet, call'.day) # {} /\ Given(call') # {}) =>
             (~ret'.raised /\ ret'.value[2] = TRUE)]_vars

\* The fields in rendering order.
RenderOrder == <<"start", "break_start", "break_end", "end">>

HasValue(sh, r, f) == sh[r][FieldCol(f)] # None

\* The pairs of the compact line for row r: the fields that hold a value, in order.
LinePairs(sh, r) ==
    LET kept == SelectSeq(RenderOrder, LAMBDA f : HasValue(sh, r, f))
    IN [i \in 1..Len(kept) |->
           <<kept[i], "@", sh[r][FieldCol(kept[i])] \o <<0>> >>]

\* C8: the compact rendering of a row is its date label, " -> " and the
\* field@value pairs of exactly the time cells that hold a value, in the order
\* start, break_start, break_end, end, with no pair for the date; rendering
\* changes no cell and not the dirty flag.
C8_CompactRendering ==
    [][(call'.op = "print_row" /\ ~ret'.raised) =>
          /\ sheet' = sheet
          /\ dirty' = dirty
          /\ ~call'.pretty =>
                LET r == call'.row_index
                IN /\ out'[1] = (IF Len(sheet[r]["A"]) = 5
                                 THEN SubSeq(sheet[r]["A"], 1, 3) ELSE << >>)
                   /\ out'[2] = "->"
                   /\ out'[3] = LinePairs(sheet, r)
                   /\ \A i \in 1..Len(out'[3]) : out'[3][i][1] # "date"]_vars

\* Start and end hold a value, the break cells do not: two pairs are listed.
C8_Witness ==
    /\ call.op = "print_row"
    /\ ~call.pretty
    /\ out = <<Day1, "->", << <<"start", "@", <<8, 15, 0>> >>,
                              <<"end", "@", <<8, 15, 0>> >> >> >>

\* The step in which the driver calls save.
SaveStep == trace' # trace /\ trace'[Len(trace')] = "save"

\* C5: the driver calls save at most once and only when the dirty flag is
\* true, a completed save leaves dirty false, and the stored file changes in
\* no other step, so a run that assigned no cell never writes it.
C5_SaveOnceWhenDirty ==
    [][/\ SaveStep =>
             /\ dirty
             /\ unsaved
             /\ "save" \notin Range(trace)
             /\ ~ret'.raised => (~dirty' /\ file' = sheet)
       /\ file' # file => SaveStep]_vars

\* A run that opened, entered, rendered and saved.
C5_Witness ==
    /\ pc = "done"
    /\ trace = <<"open", "enter", "print_row", "save">>
    /\ exit_code = <<0>>
    /\ ~dirty
    /\ file = sheet

\* The argument texts of the command line that are no valid date or time.
Offending ==
    {argv[a] : a \in {b \in Range(Attrs) :
        /\ Len(argv[b]) = 1
        /\ argv[b][1] \notin (IF b = "date" THEN DateTexts ELSE TimeTexts)}}

\* C6: a run that reaches enter (here: on a command line of valid texts) is
\* open, enter, a render exactly when the requested day is in the date
\* column, then a save if dirty; when the day is missing it renders nothing,
\* saves nothing and exits with 0.
C6_RenderIffLocated ==
    (pc = "done" /\ "enter" \in Range(trace) /\ Offending = {}) =>
        /\ trace \in {<<"open", "enter">>, <<"open", "enter", "print_row">>,
                      <<"open", "enter", "save">>,
                      <<"open", "enter", "print_row", "save">>}
        /\ ("print_row" \in Range(trace)) <=> (Matches(sheet, args.date) # {})
        /\ Matches(sheet, args.date) = {} =>
              (trace = <<"open", "enter">> /\ exit_code = <<0>>)

\* C7: when an argument text is no valid date or time (the empty text
\* included) the document is never opened, nothing is entered, rendered or
\* saved, and the run ends with a non-zero status and a diagnostic naming an
\* offending value.
C7_InvalidTextIsFatal ==
    Offending # {} =>
        /\ trace = << >>
        /\ sheet = << >>
        /\ pc = "done" =>
              /\ exit_code \notin {None, <<0>>}
              /\ \E v \in Offending :
                    err \in {<<"Invalid day", v>>, <<"Invalid time", v>>}

====
